---- MODULE Spec2Model ----
(***************************************************************************)
(* Model of immich-onedrive-diff.py: the fetch / cache / diff / download   *)
(* pipeline of main(), one process run after another over the same disk.   *)
(*                                                                         *)
(* Python values.  A dict is a TLA+ record whose fields are the keys that  *)
(* are present (an absent key is an absent field).  A Python value that is *)
(* not a dict is a record with a "ty" field: [ty |-> "str", s |-> ...],    *)
(* [ty |-> "int"], [ty |-> "none"].  None as the value of a variable that  *)
(* otherwise holds a string is the string None below.                      *)
(***************************************************************************)
EXTENDS Integers, Sequences, FiniteSets, TLC

\* ------------------------------------------------------------------------
\* Bounds of the model
\* ------------------------------------------------------------------------

\* Listing requests one call of get_onedrive_camera_roll_files may issue:
\* the source service sends no cursor on its MaxSrcPages-th page.
MaxSrcPages == 2

\* Search requests one call of get_immich_assets may issue: the target
\* service ends the listing on its MaxTgtPages-th page.
MaxTgtPages == 2

\* ------------------------------------------------------------------------
\* Python helpers
\* ------------------------------------------------------------------------

None == "<None>"

IsDict(x) == "ty" \notin DOMAIN x

PyStr(s) == [ty |-> "str", s |-> s]
PyInt(n) == [ty |-> "int", n |-> n]
PyNone == [ty |-> "none"]

\* Sequences over S of length at most n.
SeqUpTo(S, n) == UNION {[1..k -> S] : k \in 0..n}

\* extend that puts the new page in front of what was accumulated.
Extended_in_front(list, more) == more \o list

\* list.extend(more) (lines 81 and 123): the list afterwards.
Extended(list, more) == list \o more

\* No check of the status at all.
IsError_never(status_code) == FALSE

\* A check that lets every status below 500 through.
IsError_server_only(status_code) == status_code >= 500

\* The check of lines 76 and 112: any status but 200 is an error.
IsError(status_code) == status_code # 200

\* Python truthiness of a str-or-None value: None and "" are falsy.
Truthy(s) == s # None /\ s # ""

\* ------------------------------------------------------------------------
\* The data the two services and the disk can hold
\* ------------------------------------------------------------------------

\* What the run is up against.  The state space is explored once per world,
\* each varying one part of the environment and holding the rest simple:
\*   "inventory": the cache file and the source listing vary;
\*   "search":    the target search vary;
\*   "download":  the missing files, the user, the content endpoint and the
\*                download folder vary;
\*   "functions": no run at all, the pure functions are applied to inputs.
VARIABLE world

\* Raw driveItem records of the Camera Roll listing (resp.json()["value"]).
\* A file carries the "file" facet, a folder does not; "size" may be absent.
FileA == [id |-> "1", name |-> "a.jpg", size |-> 2, file |-> "facet"]
FileB == [id |-> "2", name |-> "b.jpg", file |-> "facet"]
FileA2 == [id |-> "3", name |-> "a.jpg", size |-> 1, file |-> "facet"]
FolderD == [id |-> "4", name |-> "d", folder |-> "facet"]

\* The "value" arrays a listing page can carry.
SrcPageValues ==
    CASE world = "inventory" -> {<<>>, <<FileA>>, <<FileB>>, <<FolderD>>}
      [] world = "download" -> {<<FileA>>, <<FileB>>, <<FileA2>>, <<FolderD, FileB>>}
      [] OTHER -> {<<FileA, FileB>>}

\* The "@odata.nextLink" of a listing page: absent, empty, or a URL.
SrcCursors ==
    CASE world = "inventory" -> {None, "", "u1", "u2"}
      [] world = "download" -> {None, "u1"}
      [] OTHER -> {None}

\* HTTP statuses of the listing endpoint and of the search endpoint.
SrcStatuses == IF world = "inventory" THEN {200, 404, 500} ELSE {200}
TgtStatuses == IF world = "search" THEN {200, 204, 500} ELSE {200}

\* File names the download folder can hold.
FileNames == {"a.jpg", "b.jpg"}

\* A path with nothing at it.
NoFile == [k |-> "absent"]

\* ---- the bytes of the cache file, as json.load sees them ----
\* not decodable as UTF-8
BadUtf8 == [k |-> "badutf8"]
\* UTF-8 text that is no JSON document: the first elements of an array whose
\* closing bracket was never written (none: an empty or a garbage file)
NotJson(elems) == [k |-> "notjson", elems |-> elems]
\* a JSON document, given by the Python value it decodes to
Json(v) == [k |-> "json", v |-> v]
PyList(elems) == [ty |-> "list", elems |-> elems]
PyDictKeys(keys) == [ty |-> "dict", keys |-> keys]

CacheOnDisk(text, readable) == [k |-> "file", readable |-> readable, text |-> text]

\* The cache files a run can find on disk when it starts.
InitialCacheFiles ==
    {NoFile}
    \cup {CacheOnDisk(Json(PyList(es)), TRUE) :
            es \in {<<>>, <<FileB>>, <<FolderD, FileA>>}}
    \cup {CacheOnDisk(Json(PyList(<<FileA>>)), FALSE)}
    \cup {CacheOnDisk(t, TRUE) :
            t \in {BadUtf8, NotJson(<<>>), Json(PyNone), Json(PyInt(5)),
                   Json(PyStr("file")), Json(PyDictKeys(<<"file">>)),
                   Json(PyList(<<PyInt(5)>>)), Json(PyList(<<PyStr("file")>>))}}

\* ------------------------------------------------------------------------
\* State
\* ------------------------------------------------------------------------

VARIABLES
    \* the disk and the configuration, which outlive a process run
    ONEDRIVE_CACHE_FILE,   \* what is at ./onedrive_camera_roll_cache.json
    live_returned,         \* history: what the live fetch that wrote the cache
                           \* file as it is now returned, if one did
    DOWNLOAD_FOLDER,       \* file name -> what is at ./immich_missing_files/name
    USE_ONEDRIVE_CACHE,    \* the configuration constant of line 33
    credentials,           \* "ok", or which placeholder is still in place
    \* the process
    pc,                    \* where the run is
    exit_status,           \* the process's exit status once it has ended, else -1
    refresh_onedrive,      \* "--refresh-onedrive" in sys.argv
    \* get_onedrive_camera_roll_files
    url, items, written, warnings, srcLog,
    onedrive_files,
    \* get_immich_assets
    page, assets, tgtLog,
    immich_assets,
    \* main
    immich_names, missing_files, answer, overall_pbar, idx,
    \* download_onedrive_file
    dl, dlLog,
    \* what a pure function returned, when it is applied outside a run
    result

env == <<world, USE_ONEDRIVE_CACHE, credentials, result>>
cache == <<ONEDRIVE_CACHE_FILE, live_returned>>
disk == <<env, cache, DOWNLOAD_FOLDER>>
srcVars == <<url, items, written, warnings, srcLog>>
tgtVars == <<page, assets, tgtLog>>
mainVars == <<immich_names, missing_files, answer, overall_pbar, idx>>
dlVars == <<dl, dlLog>>
vars == <<world, live_returned, ONEDRIVE_CACHE_FILE, DOWNLOAD_FOLDER, USE_ONEDRIVE_CACHE, credentials,
          pc, exit_status, refresh_onedrive, url, items, written, warnings, srcLog,
          onedrive_files, page, assets, tgtLog, immich_assets, immich_names,
          missing_files, answer, overall_pbar, idx, dl, dlLog, result>>

\* The URL of the first listing request (lines 26, 30, 71).
GRAPH_LISTING_URL == "https://graph.microsoft.com/v1.0/me/drive/root:/Pictures/Camera Roll:/children"

NoPbar == [k |-> "none"]
NoDownload == [k |-> "idle"]

\* The memory of a process that has just started: nothing is assigned yet.
FreshProcess ==
    /\ pc = "main"
    /\ exit_status = -1
    /\ url = None /\ items = <<>> /\ written = 0 /\ warnings = {} /\ srcLog = <<>>
    /\ onedrive_files = <<>>
    /\ page = 0 /\ assets = <<>> /\ tgtLog = <<>>
    /\ immich_assets = <<>>
    /\ immich_names = {} /\ missing_files = <<>> /\ answer = None
    /\ overall_pbar = NoPbar /\ idx = 0
    /\ dl = NoDownload /\ dlLog = <<>>

\* A stale file somebody left in the download folder.  (complete is
\* history: the download that wrote the file ran to its end.)
StaleFile == [k |-> "file", from |-> "stale", len |-> 1, complete |-> FALSE]

InitialFolders ==
    {[n \in FileNames |-> NoFile],
     [n \in FileNames |-> IF n = "a.jpg" THEN StaleFile ELSE NoFile]}

EmptyFolder == [n \in FileNames |-> NoFile]

NoResult == [res |-> "none"]
NotFromLiveFetch == [ok |-> FALSE]

Init ==
    /\ FreshProcess
    /\ result = NoResult
    /\ live_returned = NotFromLiveFetch
    /\ refresh_onedrive \in BOOLEAN
    /\ \/ /\ world = "inventory"
          /\ credentials = "ok"
          /\ ONEDRIVE_CACHE_FILE \in InitialCacheFiles
          /\ DOWNLOAD_FOLDER = EmptyFolder
          /\ USE_ONEDRIVE_CACHE \in BOOLEAN
       \/ /\ world = "search"
          /\ credentials \in {"ok", "no_onedrive_token", "no_immich_key"}
          /\ ONEDRIVE_CACHE_FILE = NoFile
          /\ DOWNLOAD_FOLDER = EmptyFolder
          /\ USE_ONEDRIVE_CACHE = FALSE
       \/ /\ world = "download"
          /\ credentials = "ok"
          /\ ONEDRIVE_CACHE_FILE = NoFile
          /\ DOWNLOAD_FOLDER \in InitialFolders
          /\ USE_ONEDRIVE_CACHE = FALSE

\* ------------------------------------------------------------------------
\* How a process ends
\* ------------------------------------------------------------------------

\* The process has ended: its memory is gone, the disk stays.  how is "done"
\* (main returned), "exited" (sys.exit), "crashed" (an exception nobody
\* catches: the interpreter prints the traceback and exits with status 1),
\* "killed" (the process was stopped from outside).
Ended(how, status) ==
    /\ pc' = how
    /\ exit_status' = status

\* ------------------------------------------------------------------------
\* get_onedrive_camera_roll_files (lines 50-92)
\* ------------------------------------------------------------------------

\* sub in s, for two str values.
IsSubstring(sub, s) ==
    \E i \in 0..(Len(s) - Len(sub)) : SubSeq(s, i + 1, i + Len(sub)) = sub

\* Can `for item in v` iterate over the decoded document v?
Iterable(v) == v.ty \in {"list", "dict", "str"}

\* What `for item in v` yields: the elements of a list, the keys of a dict,
\* the characters of a str.
IterElems(v) ==
    CASE v.ty = "list" -> v.elems
      [] v.ty = "dict" -> [i \in 1..Len(v.keys) |-> PyStr(v.keys[i])]
      [] v.ty = "str" -> [i \in 1..Len(v.s) |-> PyStr(SubSeq(v.s, i, i))]

\* Does `"file" in item` evaluate at all?  It raises TypeError for an int or
\* None.
ContainsDefined(item) == IsDict(item) \/ item.ty = "str"

\* `"file" in item` (line 63, line 92): a key of a dict, a substring of a
\* str.
HasFileMarker(item) ==
    IF IsDict(item) THEN "file" \in DOMAIN item ELSE IsSubstring("file", item.s)

\* [item for item in items if "file" in item]
FilesOnly(its) == SelectSeq(its, HasFileMarker)

\* LoadCache without the filter of line 63: every entry of the snapshot is
\* returned, folders too.
LoadCache_unfiltered(f) ==
    IF ~f.readable THEN [res |-> "OSError"]
    ELSE IF f.text.k = "badutf8" THEN [res |-> "UnicodeDecodeError"]
    ELSE IF f.text.k = "notjson" THEN [res |-> "JSONDecodeError"]
    ELSE IF ~Iterable(f.text.v) THEN [res |-> "TypeError"]
    ELSE [res |-> "ok", files |-> IterElems(f.text.v)]

\* Lines 58-65 on a cache file that exists: the list returned, or the
\* exception raised.  open() raises OSError on a file that cannot be read;
\* the text layer raises UnicodeDecodeError, json.load JSONDecodeError, the
\* comprehension TypeError.
LoadCache(f) ==
    IF ~f.readable THEN [res |-> "OSError"]
    ELSE IF f.text.k = "badutf8" THEN [res |-> "UnicodeDecodeError"]
    ELSE IF f.text.k = "notjson" THEN [res |-> "JSONDecodeError"]
    ELSE IF ~Iterable(f.text.v) THEN [res |-> "TypeError"]
    ELSE LET its == IterElems(f.text.v) IN
         IF \E i \in 1..Len(its) : ~ContainsDefined(its[i])
         THEN [res |-> "TypeError"]
         ELSE [res |-> "ok", files |-> FilesOnly(its)]

\* except (json.JSONDecodeError, OSError) of line 64
CaughtOnRead(exc) == exc \in {"JSONDecodeError", "OSError"}

\* main, lines 224-237: the credential checks, then the call of
\* get_onedrive_camera_roll_files(refresh=refresh_onedrive).
MainStart ==
    /\ pc = "main"
    /\ IF credentials # "ok"
       THEN Ended("exited", 1)
       ELSE /\ pc' = "src_entry"
            /\ UNCHANGED exit_status
    /\ UNCHANGED <<disk, refresh_onedrive, srcVars, onedrive_files, tgtVars,
                   immich_assets, mainVars, dlVars>>

StartFetch ==
    /\ url' = GRAPH_LISTING_URL
    /\ items' = <<>>
    /\ pc' = "src_fetch"

\* Lines 57-72: the cache is read when it is enabled, not refreshed and
\* there; a caught error falls through to the live fetch.
SrcEntry ==
    /\ pc = "src_entry"
    /\ IF USE_ONEDRIVE_CACHE /\ ~refresh_onedrive /\ ONEDRIVE_CACHE_FILE # NoFile
       THEN LET out == LoadCache(ONEDRIVE_CACHE_FILE) IN
            IF out.res = "ok"
            THEN /\ onedrive_files' = out.files
                 /\ pc' = "src_done"
                 /\ UNCHANGED <<url, items, warnings, exit_status>>
            ELSE IF CaughtOnRead(out.res)
            THEN /\ warnings' = warnings \cup {"cache_read"}
                 /\ StartFetch
                 /\ UNCHANGED <<onedrive_files, exit_status>>
            ELSE /\ Ended("crashed", 1)
                 /\ UNCHANGED <<url, items, warnings, onedrive_files>>
       ELSE /\ StartFetch
            /\ UNCHANGED <<warnings, onedrive_files, exit_status>>
    /\ UNCHANGED <<disk, refresh_onedrive, written, srcLog, tgtVars,
                   immich_assets, mainVars, dlVars>>

\* Lines 74-82, one turn of the loop: the request to url, the response, and
\* what is done with it.
SrcPage ==
    /\ pc = "src_fetch"
    /\ \E status \in SrcStatuses, value \in SrcPageValues, next \in SrcCursors :
         /\ Len(srcLog) + 1 >= MaxSrcPages => ~Truthy(next)
         /\ status # 200 => value = <<>> /\ next = None
         /\ srcLog' = Append(srcLog, [url |-> url, status |-> status,
                                      value |-> value, next |-> next])
         /\ IF IsError(status)
            THEN /\ Ended("exited", 1)
                 /\ UNCHANGED <<url, items>>
            ELSE /\ items' = Extended(items, value)
                 /\ url' = next
                 /\ pc' = IF Truthy(next) THEN "src_fetch"
                          ELSE IF USE_ONEDRIVE_CACHE THEN "src_open"
                          ELSE "src_return"
                 /\ UNCHANGED exit_status
    /\ UNCHANGED <<disk, refresh_onedrive, written, warnings, onedrive_files,
                   tgtVars, immich_assets, mainVars, dlVars>>

\* json_dump on a list that misses its last entry, as if the cache were
\* written before the last page was added.
json_dump_short(its) ==
    Json(PyList(IF its = <<>> THEN its ELSE SubSeq(its, 1, Len(its) - 1)))

\* json_dump of the file entries only, the folders left out.
json_dump_files_only(its) == Json(PyList(FilesOnly(its)))

\* json.dump(items, f), once the file is closed: the text of the array.
json_dump(its) == Json(PyList(its))

\* Line 90: the warning of a cache write that failed; the function goes on.
WriteFailed ==
    /\ warnings' = warnings \cup {"cache_write"}
    /\ pc' = "src_return"

\* Line 87: open(..., "w") truncates the file, or creates it, or raises
\* OSError and leaves the path as it was.
SrcOpen ==
    /\ pc = "src_open"
    /\ \/ /\ ONEDRIVE_CACHE_FILE' =
                CacheOnDisk(NotJson(<<>>),
                            IF ONEDRIVE_CACHE_FILE = NoFile THEN TRUE
                            ELSE ONEDRIVE_CACHE_FILE.readable)
          /\ live_returned' = NotFromLiveFetch
          /\ written' = 0
          /\ pc' = "src_dump"
          /\ UNCHANGED warnings
       \/ /\ WriteFailed
          /\ UNCHANGED <<cache, written>>
    /\ UNCHANGED <<env, DOWNLOAD_FOLDER, exit_status,
                   refresh_onedrive, url, items, srcLog, onedrive_files, tgtVars,
                   immich_assets, mainVars, dlVars>>

\* Line 88 and the end of the with block: json.dump writes the array element
\* by element, the closing bracket last; any write can raise OSError, which
\* leaves on disk what was written before it.
SrcDump ==
    /\ pc = "src_dump"
    /\ \/ /\ written < Len(items)
          /\ written' = written + 1
          /\ ONEDRIVE_CACHE_FILE' =
                [ONEDRIVE_CACHE_FILE EXCEPT !.text = NotJson(SubSeq(items, 1, written + 1))]
          /\ UNCHANGED <<pc, warnings>>
       \/ /\ written = Len(items)
          /\ ONEDRIVE_CACHE_FILE' =
                [ONEDRIVE_CACHE_FILE EXCEPT !.text = json_dump(items)]
          /\ pc' = "src_return"
          /\ UNCHANGED <<written, warnings>>
       \/ /\ WriteFailed
          /\ UNCHANGED <<ONEDRIVE_CACHE_FILE, written>>
    /\ UNCHANGED <<env, live_returned, DOWNLOAD_FOLDER, exit_status,
                   refresh_onedrive, url, items, srcLog, onedrive_files, tgtVars,
                   immich_assets, mainVars, dlVars>>

\* The process is killed while json.dump is writing (a signal, a power
\* cut): what was written so far stays on disk.
Killed ==
    /\ pc = "src_dump"
    /\ Ended("killed", 137)
    /\ UNCHANGED <<disk, refresh_onedrive, srcVars, onedrive_files, tgtVars,
                   immich_assets, mainVars, dlVars>>

\* Line 92.  (History: a cache file this call wrote in full now holds what
\* it returns.)
SrcReturn ==
    /\ pc = "src_return"
    /\ onedrive_files' = FilesOnly(items)
    /\ live_returned' =
          IF USE_ONEDRIVE_CACHE /\ "cache_write" \notin warnings
          THEN [ok |-> TRUE, files |-> FilesOnly(items)]
          ELSE live_returned
    /\ pc' = "src_done"
    /\ UNCHANGED <<env, ONEDRIVE_CACHE_FILE, DOWNLOAD_FOLDER, exit_status, refresh_onedrive, srcVars, tgtVars,
                   immich_assets, mainVars, dlVars>>

\* ------------------------------------------------------------------------
\* get_immich_assets (lines 95-134)
\* ------------------------------------------------------------------------

\* Asset records of the search response (data["assets"]["items"]).
AssetA == [originalFileName |-> "a.jpg", originalPath |-> "/x/zz.jpg"]
AssetB == [originalFileName |-> "", fileName |-> "b.jpg"]
AssetPathA == [originalPath |-> "/x/a.jpg"]
AssetEmpty == [originalFileName |-> None]
AssetNullPath == [fileName |-> "", originalPath |-> None]

\* The "items" arrays a search page can carry.
TgtPageItems ==
    CASE world = "search" -> {<<>>, <<AssetA>>, <<AssetB>>, <<AssetPathA>>,
                              <<AssetEmpty>>, <<AssetNullPath>>}
      [] world = "download" -> {<<>>, <<AssetA>>, <<AssetB>>}
      [] OTHER -> {<<>>}

\* The "nextPage" of a search page: absent or null, a string, a number.
TgtTokens ==
    IF world = "search"
    THEN {PyNone, PyStr(""), PyStr("2"), PyStr(" 4"), PyStr("x"), PyInt(0), PyInt(3)}
    ELSE {PyNone}

\* `if next_page is None` in place of `if not next_page`.
TokenTruthy_not_none(t) == t.ty # "none"

\* Python truthiness of a nextPage value (line 126).
TokenTruthy(t) ==
    CASE t.ty = "none" -> FALSE
      [] t.ty = "str" -> t.s # ""
      [] t.ty = "int" -> t.n # 0

DigitValue == [c \in {"0", "1", "2", "3", "4", "5", "6", "7", "8", "9"} |->
                 CASE c = "0" -> 0 [] c = "1" -> 1 [] c = "2" -> 2 [] c = "3" -> 3
                   [] c = "4" -> 4 [] c = "5" -> 5 [] c = "6" -> 6 [] c = "7" -> 7
                   [] c = "8" -> 8 [] c = "9" -> 9]

Whitespace == {" ", "\t", "\n", "\r"}

\* str.strip(): s without its leading and trailing whitespace.
RECURSIVE Strip(_)
Strip(s) ==
    IF s = "" THEN s
    ELSE IF SubSeq(s, 1, 1) \in Whitespace THEN Strip(SubSeq(s, 2, Len(s)))
    ELSE IF SubSeq(s, Len(s), Len(s)) \in Whitespace THEN Strip(SubSeq(s, 1, Len(s) - 1))
    ELSE s

AllDigits(s) == s # "" /\ \A i \in 1..Len(s) : SubSeq(s, i, i) \in DOMAIN DigitValue

RECURSIVE DigitsValue(_)
DigitsValue(s) ==
    IF s = "" THEN 0
    ELSE 10 * DigitsValue(SubSeq(s, 1, Len(s) - 1)) + DigitValue[SubSeq(s, Len(s), Len(s))]

\* int(s) for a str: surrounding whitespace and one sign are allowed, then
\* decimal digits; anything else raises ValueError.
IntParses(s) ==
    LET t == Strip(s) IN
    IF t # "" /\ SubSeq(t, 1, 1) \in {"+", "-"}
    THEN AllDigits(SubSeq(t, 2, Len(t)))
    ELSE AllDigits(t)

IntOfStr(s) ==
    LET t == Strip(s) IN
    IF SubSeq(t, 1, 1) = "-" THEN 0 - DigitsValue(SubSeq(t, 2, Len(t)))
    ELSE IF SubSeq(t, 1, 1) = "+" THEN DigitsValue(SubSeq(t, 2, Len(t)))
    ELSE DigitsValue(t)

\* A loop that counts the pages itself and does not read the token.
NextPageNumber_counted(cur, token) == cur + 1

\* Lines 129-132: the page requested after a page whose token is truthy.
NextPageNumber(cur, token) ==
    IF token.ty = "int" THEN token.n
    ELSE IF IntParses(token.s) THEN IntOfStr(token.s)
    ELSE cur + 1

\* main, lines 238-241, and lines 103-107: the source inventory is in hand,
\* get_immich_assets starts with page 1.
MainCallImmich ==
    /\ pc = "src_done"
    /\ page' = 1
    /\ assets' = <<>>
    /\ tgtLog' = <<>>
    /\ url' = None /\ items' = <<>> /\ written' = 0 /\ warnings' = {} /\ srcLog' = <<>>
    /\ pc' = "tgt_fetch"
    /\ UNCHANGED <<disk, exit_status, refresh_onedrive, onedrive_files,
                   immich_assets, mainVars, dlVars>>

\* Lines 109-134, one turn of the loop: the search request for page, the
\* response, and what is done with it.
TgtPage ==
    /\ pc = "tgt_fetch"
    /\ \E status \in TgtStatuses, its \in TgtPageItems, next \in TgtTokens :
         /\ Len(tgtLog) + 1 >= MaxTgtPages => its = <<>> \/ ~TokenTruthy(next)
         /\ status # 200 => its = <<>> /\ next = PyNone
         /\ tgtLog' = Append(tgtLog, [page |-> page, status |-> status,
                                      items |-> its, next |-> next])
         /\ IF IsError(status)
            THEN /\ Ended("exited", 1)
                 /\ UNCHANGED <<page, assets, immich_assets>>
            ELSE IF its = <<>>
            THEN /\ immich_assets' = assets
                 /\ pc' = "tgt_done"
                 /\ UNCHANGED <<page, assets, exit_status>>
            ELSE IF ~TokenTruthy(next)
            THEN /\ assets' = Extended(assets, its)
                 /\ immich_assets' = Extended(assets, its)
                 /\ pc' = "tgt_done"
                 /\ UNCHANGED <<page, exit_status>>
            ELSE /\ assets' = Extended(assets, its)
                 /\ page' = NextPageNumber(page, next)
                 /\ UNCHANGED <<pc, immich_assets, exit_status>>
    /\ UNCHANGED <<disk, refresh_onedrive, srcVars, onedrive_files, mainVars, dlVars>>

\* ------------------------------------------------------------------------
\* get_immich_filenames (lines 137-151), list_missing_files (lines 154-160)
\* ------------------------------------------------------------------------

\* dict.get(key): None when the key is absent.
Get(d, key) == IF key \in DOMAIN d THEN d[key] ELSE None

\* s.split("/")[-1]: what follows the last "/" of s, all of s without one.
LastSegment(s) ==
    LET slashes == {i \in 1..Len(s) : SubSeq(s, i, i) = "/"}
        last == IF slashes = {} THEN 0
                ELSE CHOOSE i \in slashes : \A j \in slashes : j <= i
    IN SubSeq(s, last + 1, Len(s))

\* Line 147 is reached with both name fields falsy; a.get("originalPath", "")
\* yields None for a key that is present with a null value, and None has no
\* split: AttributeError.
NameRaises(a) ==
    /\ ~Truthy(Get(a, "originalFileName"))
    /\ ~Truthy(Get(a, "fileName"))
    /\ "originalPath" \in DOMAIN a
    /\ a.originalPath = None

\* Lines 144-148, for an asset on which they do not raise.
AssetName(a) ==
    IF Truthy(Get(a, "originalFileName")) THEN a.originalFileName
    ELSE IF Truthy(Get(a, "fileName")) THEN a.fileName
    ELSE LastSegment(IF "originalPath" \in DOMAIN a THEN a.originalPath ELSE "")

\* The set returned, or the exception of the first asset that raises.
get_immich_filenames(asset_list) ==
    IF \E i \in 1..Len(asset_list) : NameRaises(asset_list[i])
    THEN [res |-> "AttributeError"]
    ELSE [res |-> "ok",
          names |-> {n \in {AssetName(asset_list[i]) : i \in 1..Len(asset_list)} : n # ""}]

\* f["name"] (line 158) raises TypeError on a str and KeyError on a dict
\* without the key.
NameReadable(f) == IsDict(f) /\ "name" \in DOMAIN f

\* list_missing_files built from the set of missing names: one record per
\* name, the first one, instead of every record of the source list.
list_missing_files_by_name(files, immich_filenames) ==
    LET onedrive_names == {files[i].name : i \in 1..Len(files)}
        missing_names == onedrive_names \ immich_filenames
        FirstOfName(i) == \A j \in 1..(i - 1) : files[j].name # files[i].name
        kept == {i \in 1..Len(files) : files[i].name \in missing_names /\ FirstOfName(i)}
        RECURSIVE Pick(_)
        Pick(i) == IF i > Len(files) THEN <<>>
                   ELSE (IF i \in kept THEN <<files[i]>> ELSE <<>>) \o Pick(i + 1)
    IN Pick(1)

list_missing_files(files, immich_filenames) ==
    LET onedrive_names == {files[i].name : i \in 1..Len(files)}
        missing_names == onedrive_names \ immich_filenames
        Missing(f) == f.name \in missing_names
    IN SelectSeq(files, Missing)

\* int(item.get("size", 0) or 0)
SizeOf(item) == IF "size" \in DOMAIN item THEN item.size ELSE 0

RECURSIVE SumSizes(_)
SumSizes(files) ==
    IF files = <<>> THEN 0 ELSE SizeOf(Head(files)) + SumSizes(Tail(files))

\* ------------------------------------------------------------------------
\* main, after the two inventories (lines 242-286)
\* ------------------------------------------------------------------------

\* A tqdm bar: total is <<>> for total=None, else <<the total>>.
Tqdm(total, n) == [k |-> "tqdm", total |-> total, n |-> n]

\* tqdm.__bool__, which `if overall_pbar` calls: total > 0 when a total is
\* set; with total=None and no iterable it raises TypeError.
PbarBoolRaises(pbar) == pbar.total = <<>>
PbarTruthy(pbar) == pbar.total # <<>> /\ pbar.total[1] > 0

\* What the user can type at the prompt.
AnswerInputs == IF world = "download" THEN {"y", " Y ", "n", "", "yes"} ELSE {"n"}

UpperToLower == [c \in {"Y", "N", "E", "S"} |->
                   CASE c = "Y" -> "y" [] c = "N" -> "n" [] c = "E" -> "e" [] c = "S" -> "s"]

\* str.lower()
RECURSIVE Lower(_)
Lower(s) ==
    IF s = "" THEN s
    ELSE LET c == SubSeq(s, 1, 1) IN
         (IF c \in DOMAIN UpperToLower THEN UpperToLower[c] ELSE c)
             \o Lower(SubSeq(s, 2, Len(s)))

\* Lines 242-251: the name set, the missing files, and the early return when
\* nothing is missing.
MainReconcile ==
    /\ pc = "tgt_done"
    /\ LET got == get_immich_filenames(immich_assets) IN
       IF got.res # "ok" \/ \E i \in 1..Len(onedrive_files) : ~NameReadable(onedrive_files[i])
       THEN /\ Ended("crashed", 1)
            /\ UNCHANGED <<immich_names, missing_files>>
       ELSE /\ immich_names' = got.names
            /\ missing_files' = list_missing_files(onedrive_files, got.names)
            /\ IF list_missing_files(onedrive_files, got.names) = <<>>
               THEN Ended("done", 0)
               ELSE pc' = "prompt" /\ UNCHANGED exit_status
    /\ page' = 0 /\ assets' = <<>> /\ tgtLog' = <<>> /\ immich_assets' = <<>>
    /\ UNCHANGED <<disk, refresh_onedrive, srcVars, onedrive_files,
                   answer, overall_pbar, idx, dlVars>>

\* A prompt that downloads unless the answer is "n".
Confirmed_unless_no(ans) == ans # "n"

\* Line 265, `if answer != "y"` negated: the user said yes.
Confirmed(ans) == ans = "y"

\* Lines 253-283: the prompt; on "y" the total, the overall bar and the
\* first turn of the download loop.
MainPrompt ==
    /\ pc = "prompt"
    /\ \E typed \in AnswerInputs :
         /\ answer' = Lower(Strip(typed))
         /\ IF ~Confirmed(Lower(Strip(typed)))
            THEN /\ Ended("done", 0)
                 /\ UNCHANGED <<overall_pbar, idx>>
            ELSE LET total_size == SumSizes(missing_files) IN
                 /\ overall_pbar' = Tqdm(IF total_size > 0 THEN <<total_size>> ELSE <<>>, 0)
                 /\ idx' = 1
                 /\ pc' = "dl_entry"
                 /\ UNCHANGED exit_status
    /\ UNCHANGED <<disk, refresh_onedrive, srcVars, onedrive_files, tgtVars,
                   immich_assets, immich_names, missing_files, dlVars>>

\* ------------------------------------------------------------------------
\* download_onedrive_file (lines 168-215), called by the loop of line 283
\* ------------------------------------------------------------------------

\* Statuses of the content endpoint.
ContentStatuses == {200, 302, 404}

\* Byte counts of the chunks iter_content can yield (0: an empty chunk).
ChunkLens == {0, 1, 2}

\* Chunks one response body is made of, at most.
MaxChunks == 2

\* A file being written by the download of item: len bytes so far.
Downloaded(item, len) == [k |-> "file", from |-> item.id, len |-> len, complete |-> FALSE]

\* The record the loop of line 283 is at.
\* A loop that takes the missing files from the end of the list.
CurrentItem_from_the_end == missing_files[Len(missing_files) + 1 - idx]

CurrentItem == missing_files[idx]

\* download_onedrive_file returns: the next turn of the loop of line 283,
\* or, after the last record, the end of main (line 286).
ReturnToLoop ==
    /\ idx' = idx + 1
    /\ dl' = NoDownload
    /\ IF idx + 1 > Len(missing_files)
       THEN Ended("done", 0)
       ELSE pc' = "dl_entry" /\ UNCHANGED exit_status

\* An update that counts the file, not its bytes.
Bumped_by_one(pbar, size) ==
    IF PbarTruthy(pbar) /\ size > 0 THEN [pbar EXCEPT !.n = @ + 1] ELSE pbar

\* The early return without the update of the overall bar.
Bumped_never(pbar, size) == pbar

\* `if overall_pbar and size > 0: overall_pbar.update(size)` (lines 182-183
\* and 192-193) on a bar whose bool() does not raise: the bar afterwards.
Bumped(pbar, size) ==
    IF PbarTruthy(pbar) /\ size > 0 THEN [pbar EXCEPT !.n = @ + size] ELSE pbar

\* `if overall_pbar and size > 0: overall_pbar.update(size)`, then return
\* (lines 182-184 and 192-194).  bool(overall_pbar) is evaluated first.  log
\* is the log of the calls so far, its last entry the call that returns.
BumpAndReturn(log, outcome) ==
    IF PbarBoolRaises(overall_pbar)
    THEN /\ Ended("crashed", 1)
         /\ dlLog' = [log EXCEPT ![idx].out = "TypeError"]
         /\ UNCHANGED <<overall_pbar, idx, dl>>
    ELSE /\ overall_pbar' = Bumped(overall_pbar, SizeOf(CurrentItem))
         /\ dlLog' = [log EXCEPT ![idx].out = outcome]
         /\ ReturnToLoop

\* An existence check that never finds the file.
Exists_never(folder, name) == FALSE

\* dest_path.exists() (line 180)
Exists(folder, name) == folder[name] # NoFile

\* A status check that accepts every response.
Accepted_any(status_code) == TRUE

\* Line 190, `r.status_code not in (200, 302)` negated.
Accepted(status_code) == status_code \in {200, 302}

\* The entry of the call in progress in the log of calls, with the status
\* of the content response added.
Answered(log, i, status_code) ==
    [log EXCEPT ![i] = [id |-> @.id, out |-> @.out, status |-> status_code]]

\* Lines 173-189: a file that is already there is skipped; otherwise the
\* content request is sent.
DlEntry ==
    /\ pc = "dl_entry"
    /\ LET called == Append(dlLog, [id |-> CurrentItem.id, out |-> "called"]) IN
       IF Exists(DOWNLOAD_FOLDER, CurrentItem.name)
       THEN BumpAndReturn(called, "present")
       ELSE /\ dlLog' = [called EXCEPT ![idx].out = "requested"]
            /\ dl' = [k |-> "request", id |-> CurrentItem.id]
            /\ pc' = "dl_response"
            /\ UNCHANGED <<overall_pbar, idx, exit_status>>
    /\ UNCHANGED <<disk, refresh_onedrive, srcVars, onedrive_files, tgtVars,
                   immich_assets, immich_names, missing_files, answer>>

\* Lines 189-207: the response; a status outside (200, 302) is logged and
\* the function returns, otherwise the destination file is opened for
\* writing, which creates it empty.
DlResponse ==
    /\ pc = "dl_response"
    /\ \E status \in ContentStatuses :
         IF ~Accepted(status)
         THEN /\ BumpAndReturn(Answered(dlLog, idx, status), "rejected")
              /\ UNCHANGED DOWNLOAD_FOLDER
         ELSE /\ DOWNLOAD_FOLDER' =
                   [DOWNLOAD_FOLDER EXCEPT ![CurrentItem.name] = Downloaded(CurrentItem, 0)]
              /\ dl' = [k |-> "stream", id |-> CurrentItem.id, chunks |-> 0, file_pbar |-> 0]
              /\ dlLog' = [Answered(dlLog, idx, status) EXCEPT ![idx].out = "streaming"]
              /\ pc' = "dl_stream"
              /\ UNCHANGED <<overall_pbar, idx, exit_status>>
    /\ UNCHANGED <<env, cache,
                   refresh_onedrive, srcVars, onedrive_files, tgtVars,
                   immich_assets, immich_names, missing_files, answer>>

\* Lines 208-215, one turn of the loop over r.iter_content: an empty chunk
\* is skipped, any other is written and counted on both bars.
DlChunk ==
    /\ pc = "dl_stream"
    /\ dl.chunks < MaxChunks
    /\ \E chunk_len \in ChunkLens :
         IF chunk_len = 0
         THEN /\ dl' = [dl EXCEPT !.chunks = @ + 1]
              /\ UNCHANGED <<DOWNLOAD_FOLDER, overall_pbar, dlLog, pc, exit_status>>
         ELSE /\ DOWNLOAD_FOLDER' =
                   [DOWNLOAD_FOLDER EXCEPT ![CurrentItem.name].len = @ + chunk_len]
              /\ dl' = [dl EXCEPT !.chunks = @ + 1, !.file_pbar = @ + chunk_len]
              /\ IF PbarBoolRaises(overall_pbar)
                 THEN /\ Ended("crashed", 1)
                      /\ dlLog' = [dlLog EXCEPT ![idx].out = "TypeError"]
                      /\ UNCHANGED overall_pbar
                 ELSE /\ overall_pbar' =
                           IF PbarTruthy(overall_pbar)
                           THEN [overall_pbar EXCEPT !.n = @ + chunk_len]
                           ELSE overall_pbar
                      /\ UNCHANGED <<dlLog, pc, exit_status>>
    /\ UNCHANGED <<env, cache,
                   refresh_onedrive, srcVars, onedrive_files, tgtVars,
                   immich_assets, immich_names, missing_files, answer, idx>>

\* The body is exhausted: the with blocks close the file and the response,
\* and the function returns.
DlEof ==
    /\ pc = "dl_stream"
    /\ DOWNLOAD_FOLDER' = [DOWNLOAD_FOLDER EXCEPT ![CurrentItem.name].complete = TRUE]
    /\ dlLog' = [dlLog EXCEPT ![idx].out = "downloaded"]
    /\ ReturnToLoop
    /\ UNCHANGED <<env, cache, refresh_onedrive, srcVars, onedrive_files, tgtVars,
                   immich_assets, immich_names, missing_files, answer, overall_pbar>>

\* The connection breaks while the body is read: iter_content raises, nobody
\* catches it, and what was written stays in the file.
DlBroken ==
    /\ pc = "dl_stream"
    /\ dlLog' = [dlLog EXCEPT ![idx].out = "broken"]
    /\ Ended("crashed", 1)
    /\ UNCHANGED <<disk, refresh_onedrive, srcVars, onedrive_files, tgtVars,
                   immich_assets, mainVars, dl>>

\* ------------------------------------------------------------------------
\* The next run
\* ------------------------------------------------------------------------

ProcessEnded == pc \in {"done", "exited", "crashed", "killed"}

\* The script is started again, with or without --refresh-onedrive, over
\* the disk the last run left.
Restart ==
    /\ ProcessEnded
    /\ pc' = "main"
    /\ exit_status' = -1
    /\ refresh_onedrive' \in BOOLEAN
    /\ url' = None /\ items' = <<>> /\ written' = 0 /\ warnings' = {} /\ srcLog' = <<>>
    /\ onedrive_files' = <<>>
    /\ page' = 0 /\ assets' = <<>> /\ tgtLog' = <<>>
    /\ immich_assets' = <<>>
    /\ immich_names' = {} /\ missing_files' = <<>> /\ answer' = None
    /\ overall_pbar' = NoPbar /\ idx' = 0
    /\ dl' = NoDownload /\ dlLog' = <<>>
    /\ UNCHANGED disk

Next ==
    \/ MainStart
    \/ SrcEntry
    \/ SrcPage
    \/ SrcOpen
    \/ SrcDump
    \/ Killed
    \/ SrcReturn
    \/ MainCallImmich
    \/ TgtPage
    \/ MainReconcile
    \/ MainPrompt
    \/ DlEntry
    \/ DlResponse
    \/ DlChunk
    \/ DlEof
    \/ DlBroken
    \/ Restart

Spec == Init /\ [][Next]_vars

\* ------------------------------------------------------------------------
\* The pure functions, applied to inputs drawn from bounded sets
\* ------------------------------------------------------------------------

\* Longest list of source file records, and of assets, a function is given.
MaxFiles == 3
MaxAssets == 2

FileC == [id |-> "5", name |-> "c.jpg", size |-> 0, file |-> "facet"]

FnFiles == {FileA, FileB, FileA2, FileC}
FnNames == {"a.jpg", "b.jpg", "x.jpg"}

\* The marker of a key that is left out of an asset.
Absent == "<absent>"

\* Every asset whose three name fields are absent, null, empty or set.
FnAssets ==
    {[key \in {k \in DOMAIN c : c[k] # Absent} |-> c[key]] :
        c \in [originalFileName : {Absent, None, "", "a.jpg"},
               fileName : {Absent, "", "b.jpg"},
               originalPath : {Absent, None, "", "c.jpg", "/x/a.jpg", "x/"}]}

InitFn ==
    /\ world = "functions"
    /\ pc \in {"fn_list_missing_files", "fn_get_immich_filenames"}
    /\ IF pc = "fn_list_missing_files"
       THEN /\ onedrive_files \in SeqUpTo(FnFiles, MaxFiles)
            /\ immich_names \in SUBSET FnNames
            /\ immich_assets = <<>>
       ELSE /\ onedrive_files = <<>>
            /\ immich_names = {}
            /\ immich_assets \in SeqUpTo(FnAssets, MaxAssets)
    /\ result = NoResult
    /\ live_returned = NotFromLiveFetch
    /\ ONEDRIVE_CACHE_FILE = NoFile /\ DOWNLOAD_FOLDER = EmptyFolder
    /\ USE_ONEDRIVE_CACHE = FALSE /\ credentials = "ok"
    /\ exit_status = -1 /\ refresh_onedrive = FALSE
    /\ url = None /\ items = <<>> /\ written = 0 /\ warnings = {} /\ srcLog = <<>>
    /\ page = 0 /\ assets = <<>> /\ tgtLog = <<>>
    /\ missing_files = <<>> /\ answer = None /\ overall_pbar = NoPbar /\ idx = 0
    /\ dl = NoDownload /\ dlLog = <<>>

\* list_missing_files(onedrive_files, immich_names), called once and then
\* once more on the same arguments, which it leaves as they are.
FnListMissing ==
    /\ pc \in {"fn_list_missing_files", "fn_listed_once"}
    /\ LET got == list_missing_files(onedrive_files, immich_names) IN
       IF pc = "fn_list_missing_files"
       THEN /\ result' = [res |-> "ok", first |-> got]
            /\ pc' = "fn_listed_once"
       ELSE /\ result' = [res |-> "ok", first |-> result.first, second |-> got]
            /\ pc' = "fn_listed_twice"
    /\ UNCHANGED <<world, USE_ONEDRIVE_CACHE, credentials, cache, DOWNLOAD_FOLDER,
                   exit_status, refresh_onedrive, srcVars, onedrive_files,
                   tgtVars, immich_assets, mainVars, dlVars>>

\* get_immich_filenames(immich_assets).
FnGetFilenames ==
    /\ pc = "fn_get_immich_filenames"
    /\ result' = get_immich_filenames(immich_assets)
    /\ pc' = "fn_got_filenames"
    /\ UNCHANGED <<world, USE_ONEDRIVE_CACHE, credentials, cache, DOWNLOAD_FOLDER,
                   exit_status, refresh_onedrive, srcVars, onedrive_files,
                   tgtVars, immich_assets, mainVars, dlVars>>

NextFn ==
    \/ FnListMissing
    \/ FnGetFilenames

SpecFn == InitFn /\ [][NextFn]_vars

\* ------------------------------------------------------------------------
\* Properties
\* ------------------------------------------------------------------------

\* The records of S whose name is not in T, in the order of S.
RECURSIVE AbsentFrom(_, _)
AbsentFrom(S, T) ==
    IF S = <<>> THEN <<>>
    ELSE (IF Head(S).name \notin T THEN <<Head(S)>> ELSE <<>>) \o AbsentFrom(Tail(S), T)

\* C1: for every list S of source file records (duplicate names allowed)
\* and every set T of target names, list_missing_files(S, T) is exactly the
\* subsequence of S of the records whose name is not in T, in the order of
\* S, and a second call on the same S and T returns the same list.
C1_ListMissingIsOrderedDifference ==
    /\ pc \in {"fn_listed_once", "fn_listed_twice"} =>
          result.first = AbsentFrom(onedrive_files, immich_names)
    /\ pc = "fn_listed_twice" => result.second = result.first

\* Two records of one name are both kept, a third record is dropped.
C1_Witness ==
    /\ pc = "fn_listed_twice"
    /\ Len(onedrive_files) = 3
    /\ Len(result.second) = 2
    /\ result.second[1].name = result.second[2].name
    /\ result.second[1] # result.second[2]

\* The cache file is a snapshot that can be read: a JSON array of objects.
ReadableSnapshot(f) ==
    /\ f # NoFile
    /\ f.readable
    /\ f.text.k = "json"
    /\ f.text.v.ty = "list"
    /\ \A i \in 1..Len(f.text.v.elems) : IsDict(f.text.v.elems[i])

\* The entries of es that carry the file marker, in the order of es.
RECURSIVE WithFileMarker(_)
WithFileMarker(es) ==
    IF es = <<>> THEN <<>>
    ELSE (IF "file" \in DOMAIN Head(es) THEN <<Head(es)>> ELSE <<>>)
             \o WithFileMarker(Tail(es))

\* C2: when caching is enabled, refresh is false and the snapshot file
\* exists and is readable, get_onedrive_camera_roll_files returns at once,
\* having sent no listing request, exactly the snapshot entries that carry
\* the file marker, in snapshot order.
C2_ReadableCacheIsReturned ==
    [][(/\ pc = "src_entry"
        /\ USE_ONEDRIVE_CACHE
        /\ ~refresh_onedrive
        /\ ReadableSnapshot(ONEDRIVE_CACHE_FILE))
       => (/\ pc' = "src_done"
           /\ srcLog' = <<>>
           /\ onedrive_files' = WithFileMarker(ONEDRIVE_CACHE_FILE.text.v.elems)
           /\ UNCHANGED ONEDRIVE_CACHE_FILE)]_vars

\* A snapshot found on disk, a folder and a file, was returned without its
\* folder and without a request.
C2_Witness ==
    /\ pc = "src_done"
    /\ srcLog = <<>>
    /\ ~live_returned.ok
    /\ ONEDRIVE_CACHE_FILE = CacheOnDisk(Json(PyList(<<FolderD, FileA>>)), TRUE)
    /\ onedrive_files = <<FileA>>

NoFolderIn(files) == \A i \in 1..Len(files) : "folder" \notin DOMAIN files[i]

\* C3: after a live fetch with caching enabled whose cache write succeeded,
\* a following call with refresh false that can read the file sends no
\* request and returns the same file records as the live fetch returned,
\* no folder entry in either.
C3_CacheRoundTrip ==
    [][(/\ pc = "src_entry"
        /\ USE_ONEDRIVE_CACHE
        /\ ~refresh_onedrive
        /\ live_returned.ok
        /\ ONEDRIVE_CACHE_FILE.readable)
       => (/\ pc' = "src_done"
           /\ srcLog' = <<>>
           /\ onedrive_files' = live_returned.files
           /\ NoFolderIn(onedrive_files')
           /\ NoFolderIn(live_returned.files))]_vars

\* A later run got back from the cache the one file an earlier live fetch
\* had returned, the cache holding a folder entry besides.
C3_Witness ==
    /\ pc = "src_done"
    /\ srcLog = <<>>
    /\ live_returned.ok
    /\ onedrive_files = live_returned.files
    /\ Len(onedrive_files) = 1
    /\ Len(ONEDRIVE_CACHE_FILE.text.v.elems) = 2

\* C4: for every content of the snapshot file that is unreadable or
\* malformed (I/O error, text that is not JSON, JSON that is not an array
\* of record objects), get_onedrive_camera_roll_files warns and goes on to
\* the live fetch: the run does not fail and nothing of the bad cache is
\* returned.
C4_BadCacheFallsBackToLiveFetch ==
    [][(/\ pc = "src_entry"
        /\ USE_ONEDRIVE_CACHE
        /\ ~refresh_onedrive
        /\ ONEDRIVE_CACHE_FILE # NoFile
        /\ ~ReadableSnapshot(ONEDRIVE_CACHE_FILE))
       => (/\ pc' = "src_fetch"
           /\ "cache_read" \in warnings'
           /\ onedrive_files' = <<>>)]_vars

\* The part of C4 the code keeps: a file that cannot be opened, and text
\* that is no JSON document, lead to the warning and the live fetch.
C4_CaughtErrorsFallBack ==
    [][(/\ pc = "src_entry"
        /\ USE_ONEDRIVE_CACHE
        /\ ~refresh_onedrive
        /\ ONEDRIVE_CACHE_FILE # NoFile
        /\ (~ONEDRIVE_CACHE_FILE.readable \/ ONEDRIVE_CACHE_FILE.text.k = "notjson"))
       => (/\ pc' = "src_fetch"
           /\ "cache_read" \in warnings'
           /\ onedrive_files' = <<>>)]_vars

\* A next-page cursor the loop can follow: present and not empty.
CursorPresent(c) == c \notin {None, ""}

\* The "value" arrays of the first n logged listing pages, concatenated.
RECURSIVE PagesUpTo(_)
PagesUpTo(n) == IF n = 0 THEN <<>> ELSE PagesUpTo(n - 1) \o srcLog[n].value

\* C5: against a source API that answers 200 with a next-page cursor on
\* pages 1..k and without one on page k+1, the live fetch sends exactly
\* k+1 listing requests, the first to the listing URL and each later one to
\* the cursor of the response before it, then leaves the loop and returns
\* the file items of all k+1 pages in page order.
C5_SourcePagination ==
    LET n == Len(srcLog) IN
    /\ n > 0 => srcLog[1].url = GRAPH_LISTING_URL
    /\ \A i \in 1..(n - 1) :
          /\ srcLog[i].status = 200
          /\ CursorPresent(srcLog[i].next)
          /\ srcLog[i + 1].url = srcLog[i].next
    /\ pc = "src_fetch" =>
          /\ items = PagesUpTo(n)
          /\ n > 0 => /\ srcLog[n].status = 200
                      /\ CursorPresent(srcLog[n].next)
                      /\ url = srcLog[n].next
    /\ (n > 0 /\ srcLog[n].status = 200 /\ ~CursorPresent(srcLog[n].next)) =>
          /\ pc \in {"src_open", "src_dump", "src_return", "src_done", "killed"}
          /\ items = PagesUpTo(n)
          /\ pc = "src_done" => onedrive_files = WithFileMarker(PagesUpTo(n))

\* Two pages were fetched, the second at the cursor of the first, and the
\* files of both came back in page order.
C5_Witness ==
    /\ pc = "src_done"
    /\ Len(srcLog) = 2
    /\ srcLog[1].next = "u2"
    /\ srcLog[2].url = "u2"
    /\ srcLog[2].next = None
    /\ onedrive_files = <<FileB, FileA>>

\* A page without a next-page token: the field absent or null, or a value
\* Python takes for false ("" or 0).
NoToken(t) ==
    \/ t.ty = "none"
    \/ t.ty = "str" /\ t.s = ""
    \/ t.ty = "int" /\ t.n = 0

\* The "items" arrays of the first n logged search pages, concatenated.
RECURSIVE AssetsUpTo(_)
AssetsUpTo(n) == IF n = 0 THEN <<>> ELSE AssetsUpTo(n - 1) \o tgtLog[n].items

\* C6: get_immich_assets requests page 1 first, goes on after every page
\* that has items and a next-page token, stops at the first page that has
\* no items or no token, and returns the items of every page it requested,
\* concatenated in request order, nothing removed.
C6_TargetPagination ==
    LET n == Len(tgtLog) IN
    /\ n > 0 => tgtLog[1].page = 1
    /\ \A i \in 1..(n - 1) :
          /\ tgtLog[i].status = 200
          /\ tgtLog[i].items # <<>>
          /\ ~NoToken(tgtLog[i].next)
    /\ pc = "tgt_fetch" =>
          /\ assets = AssetsUpTo(n)
          /\ n = 0 => page = 1
          /\ n > 0 => /\ tgtLog[n].status = 200
                      /\ tgtLog[n].items # <<>>
                      /\ ~NoToken(tgtLog[n].next)
    /\ pc = "tgt_done" =>
          /\ n > 0
          /\ tgtLog[n].status = 200
          /\ tgtLog[n].items = <<>> \/ NoToken(tgtLog[n].next)
          /\ immich_assets = AssetsUpTo(n)

\* Two pages with the same asset: both copies are returned.
C6_Witness ==
    /\ pc = "tgt_done"
    /\ Len(tgtLog) = 2
    /\ tgtLog[1].next = PyStr("x")
    /\ tgtLog[2].next = PyStr("")
    /\ immich_assets = <<AssetA, AssetA>>

HasNon200(log) == \E i \in 1..Len(log) : log[i].status # 200

\* C7: a response with a status other than 200 from the listing endpoint
\* or from the search endpoint, on any page, ends the run: the process has
\* exited with status 1, that response is the last one of the run, and
\* nothing of the reconciliation or of the downloads has happened.
C7_Non200IsFatal ==
    (HasNon200(srcLog) \/ HasNon200(tgtLog)) =>
        /\ pc = "exited"
        /\ exit_status = 1
        /\ \A i \in 1..(Len(srcLog) - 1) : srcLog[i].status = 200
        /\ \A i \in 1..(Len(tgtLog) - 1) : tgtLog[i].status = 200
        /\ HasNon200(srcLog) => tgtLog = <<>> /\ onedrive_files = <<>>
        /\ immich_assets = <<>>
        /\ immich_names = {}
        /\ missing_files = <<>>
        /\ overall_pbar = NoPbar
        /\ dlLog = <<>>

\* The search endpoint failed on its second page, after the source
\* inventory and one page of assets had been fetched.
C7_Witness ==
    /\ pc = "exited"
    /\ exit_status = 1
    /\ onedrive_files # <<>>
    /\ Len(tgtLog) = 2
    /\ tgtLog[2].status = 500

\* A candidate field of an asset: its value, or "" when the field is
\* absent, null or empty.
Candidate(a, key) ==
    IF key \in DOMAIN a /\ a[key] \notin {None, ""} THEN a[key] ELSE ""

\* What follows the last "/" of a path.
RECURSIVE AfterLastSlash(_)
AfterLastSlash(path) ==
    IF path = "" THEN ""
    ELSE LET last == SubSeq(path, Len(path), Len(path)) IN
         IF last = "/" THEN ""
         ELSE AfterLastSlash(SubSeq(path, 1, Len(path) - 1)) \o last

\* The name of an asset by the preference order of the specification.
PreferredName(a) ==
    IF Candidate(a, "originalFileName") # "" THEN Candidate(a, "originalFileName")
    ELSE IF Candidate(a, "fileName") # "" THEN Candidate(a, "fileName")
    ELSE AfterLastSlash(Candidate(a, "originalPath"))

PreferredNames(asset_list) ==
    {PreferredName(asset_list[i]) : i \in 1..Len(asset_list)} \ {""}

\* C8: for every list of target assets, get_immich_filenames returns the
\* set of the names taken per asset from originalFileName if it is not
\* empty, else from fileName if it is not empty, else from the last
\* "/"-separated segment of originalPath; an asset whose three candidates
\* are all empty or absent adds nothing, equal names are one element.
C8_FilenamesByPreference ==
    pc = "fn_got_filenames" =>
        /\ result.res = "ok"
        /\ result.names = PreferredNames(immich_assets)

\* The part of C8 the code keeps: on lists where no asset reaches line 147
\* with a null originalPath, the set is the one of the preference order.
C8_HoldsWithoutNullPath ==
    (/\ pc = "fn_got_filenames"
     /\ \A i \in 1..Len(immich_assets) : ~NameRaises(immich_assets[i]))
    => /\ result.res = "ok"
       /\ result.names = PreferredNames(immich_assets)

\* C9: when a file of the record's name is already in the destination
\* folder, download_onedrive_file sends no content request, leaves the
\* folder as it is, and the aggregate counter goes up by exactly the
\* declared size of the record, by 0 when the size is absent or zero.
C9_ExistingFileIsSkipped ==
    [][(/\ pc = "dl_entry"
        /\ DOWNLOAD_FOLDER[CurrentItem.name] # NoFile)
       => (/\ pc' # "dl_response"
           /\ dl' = NoDownload
           /\ dlLog'[idx].out # "requested"
           /\ DOWNLOAD_FOLDER' = DOWNLOAD_FOLDER
           /\ overall_pbar'.n = overall_pbar.n + SizeOf(CurrentItem))]_vars

\* The only call of the batch found the stale a.jpg in the folder: the
\* file is as it was and the counter stands at the declared size.
C9_Witness ==
    /\ Len(dlLog) = 1
    /\ dlLog[1] = [id |-> FileA.id, out |-> "present"]
    /\ DOWNLOAD_FOLDER["a.jpg"] = StaleFile
    /\ overall_pbar # NoPbar
    /\ overall_pbar.n = FileA.size

\* C10: in the download batch, a content response with a status outside
\* {200, 302} fails that record only: the aggregate counter goes up by the
\* declared size of the record, the process does not exit on it, and the
\* loop goes on to call download_onedrive_file for the next record.
C10_RejectedStatusIsPerFile ==
    [][(/\ pc = "dl_response"
        /\ pc' # "dl_stream")
       => (/\ overall_pbar'.n = overall_pbar.n + SizeOf(CurrentItem)
           /\ pc' # "crashed"
           /\ exit_status' # 1
           /\ dlLog'[idx].out = "rejected"
           /\ idx < Len(missing_files) => pc' = "dl_entry" /\ idx' = idx + 1)]_vars

\* The part of C10 the code keeps: with an aggregate bar that has a total,
\* which is the case when some missing record declares a positive size.
C10_HoldsWithKnownTotal ==
    [][(/\ pc = "dl_response"
        /\ pc' # "dl_stream"
        /\ ~PbarBoolRaises(overall_pbar))
       => (/\ overall_pbar'.n = overall_pbar.n + SizeOf(CurrentItem)
           /\ pc' # "crashed"
           /\ exit_status' # 1
           /\ dlLog'[idx].out = "rejected"
           /\ idx < Len(missing_files) => pc' = "dl_entry" /\ idx' = idx + 1)]_vars

\* C11: once download_onedrive_file has downloaded a record into the
\* folder to the end, the file stays as it is, and every later call for
\* that record, in this run or in a later one, sends no content request.
C11_CompletedDownloadIsKept ==
    [][\A n \in FileNames :
         (/\ DOWNLOAD_FOLDER[n].k = "file"
          /\ DOWNLOAD_FOLDER[n].complete)
         => /\ DOWNLOAD_FOLDER'[n] = DOWNLOAD_FOLDER[n]
            /\ (/\ pc = "dl_entry"
                /\ CurrentItem.name = n
                /\ CurrentItem.id = DOWNLOAD_FOLDER[n].from)
               => /\ pc' # "dl_response"
                  /\ dl' = NoDownload
                  /\ dlLog'[idx].out # "requested"]_vars

\* A run whose first call finds a.jpg as an earlier run downloaded it.
C11_Witness ==
    /\ Len(dlLog) = 1
    /\ dlLog[1] = [id |-> FileA.id, out |-> "present"]
    /\ DOWNLOAD_FOLDER["a.jpg"] =
          [k |-> "file", from |-> FileA.id, len |-> FileA.size, complete |-> TRUE]

\* C12: the cache file is written atomically: every step of the program,
\* a stop of the process during the write included, either leaves the file
\* as it was or puts the complete new snapshot in its place, so that the
\* file is never an empty or a partly written array.
C12_CacheWriteIsAtomic ==
    [][\/ ONEDRIVE_CACHE_FILE' = ONEDRIVE_CACHE_FILE
       \/ /\ ONEDRIVE_CACHE_FILE'.k = "file"
          /\ ONEDRIVE_CACHE_FILE'.text = Json(PyList(items))]_vars

\* a is b with some of its elements left out, the others in b's order.
RECURSIVE IsSubsequence(_, _)
IsSubsequence(a, b) ==
    IF a = <<>> THEN TRUE
    ELSE IF b = <<>> THEN FALSE
    ELSE IF Head(a) = Head(b) THEN IsSubsequence(Tail(a), Tail(b))
    ELSE IsSubsequence(a, Tail(b))

Finished(call) == call.out \in {"present", "rejected", "downloaded"}

\* C13: in one run download_onedrive_file is called on the missing files
\* one at a time, in the order of the list list_missing_files returned, and
\* that order is the order in which the records came in the pages of the
\* source listing, or stood in the snapshot.
C13_EndToEndOrder ==
    /\ [](/\ Len(dlLog) <= Len(missing_files)
          /\ \A i \in 1..Len(dlLog) : dlLog[i].id = missing_files[i].id
          /\ \A i \in 1..(Len(dlLog) - 1) : Finished(dlLog[i])
          /\ IsSubsequence(missing_files, onedrive_files)
          /\ (pc = "src_done" /\ srcLog # <<>>)
             => IsSubsequence(onedrive_files, PagesUpTo(Len(srcLog)))
          /\ (pc = "src_done" /\ srcLog = <<>> /\ ReadableSnapshot(ONEDRIVE_CACHE_FILE))
             => IsSubsequence(onedrive_files, ONEDRIVE_CACHE_FILE.text.v.elems))
    /\ [][/\ (pc \notin {"src_entry", "src_return"} /\ pc' # "main")
             => onedrive_files' = onedrive_files
          /\ (pc # "tgt_done" /\ pc' # "main")
             => missing_files' = missing_files
          /\ Len(dlLog') > Len(dlLog)
             => /\ Len(dlLog') = Len(dlLog) + 1
                /\ pc = "dl_entry"]_vars

\* Two files of two listing pages were missing and were handed to
\* download_onedrive_file in page order.
C13_Witness ==
    /\ onedrive_files = <<FileB, FileA>>
    /\ missing_files = <<FileB, FileA>>
    /\ Len(dlLog) = 2
    /\ dlLog[1].id = FileB.id
    /\ dlLog[2].id = FileA.id

\* The user agreed to the download of a list that is not empty.
Agreed == missing_files # <<>> /\ answer = "y"

\* C14: in every run no content request is sent and no file is created in
\* the destination folder unless the list of missing files is not empty
\* and the answer at the prompt, trimmed and in lower case, is "y".
C14_DownloadsAreGated ==
    /\ []((\/ dlLog # <<>>
           \/ dl # NoDownload
           \/ overall_pbar # NoPbar
           \/ pc \in {"dl_entry", "dl_response", "dl_stream"})
          => Agreed)
    /\ [][DOWNLOAD_FOLDER' # DOWNLOAD_FOLDER => Agreed]_vars

\* After "y" a missing file was requested and written to the folder.
C14_Witness ==
    /\ answer = "y"
    /\ missing_files = <<FileA>>
    /\ dlLog = <<[id |-> FileA.id, out |-> "downloaded", status |-> 200]>>
    /\ DOWNLOAD_FOLDER["a.jpg"].k = "file"
    /\ DOWNLOAD_FOLDER["a.jpg"].from = FileA.id

\* C15: after a live fetch that succeeded with caching on and a cache
\* write that succeeded, the snapshot is exactly the array of the raw
\* entries of the pages of that fetch, folders included, in fetch order,
\* whatever the file held before.
C15_SnapshotIsRewrittenWholesale ==
    (/\ pc \in {"src_return", "src_done"}
     /\ srcLog # <<>>
     /\ USE_ONEDRIVE_CACHE
     /\ "cache_write" \notin warnings)
    => /\ ONEDRIVE_CACHE_FILE.k = "file"
       /\ ONEDRIVE_CACHE_FILE.text = Json(PyList(PagesUpTo(Len(srcLog))))

\* A refresh of two pages, a folder on the first: the snapshot is the two
\* entries, which no earlier snapshot held.
C15_Witness ==
    /\ pc = "src_done"
    /\ refresh_onedrive
    /\ Len(srcLog) = 2
    /\ "cache_write" \notin warnings
    /\ ONEDRIVE_CACHE_FILE.k = "file"
    /\ ONEDRIVE_CACHE_FILE.text = Json(PyList(<<FolderD, FileB>>))

\* The integer a token stands for, in a one-element tuple, or the empty
\* tuple for a token that is no integer.
TokenValue(t) ==
    IF t.ty = "int" THEN <<t.n>>
    ELSE IF t.ty = "str" /\ IntParses(t.s) THEN <<IntOfStr(t.s)>>
    ELSE <<>>

\* C16: in get_immich_assets, after a page with items and a next-page
\* token, the loop goes on, and the page it asks for next is the integer
\* value of the token when the token parses as an integer, else the
\* current page number plus 1; a token that does not parse neither fails
\* the run nor ends the loop.
C16_NextPageFromToken ==
    [][pc = "tgt_fetch" =>
         LET answered == tgtLog'[Len(tgtLog')] IN
         (/\ answered.status = 200
          /\ answered.items # <<>>
          /\ ~NoToken(answered.next))
         => /\ pc' = "tgt_fetch"
            /\ exit_status' = exit_status
            /\ page' = IF TokenValue(answered.next) # <<>>
                       THEN TokenValue(answered.next)[1]
                       ELSE page + 1]_vars

\* Page 1 came with the token "x": the loop is about to ask for page 2.
C16_Witness ==
    /\ pc = "tgt_fetch"
    /\ Len(tgtLog) = 1
    /\ tgtLog[1].page = 1
    /\ tgtLog[1].next = PyStr("x")
    /\ page = 2

\* Page 1 came with the token " 4": the loop is about to ask for page 4.
C16_ParsedTokenIsFollowed ==
    /\ pc = "tgt_fetch"
    /\ Len(tgtLog) = 1
    /\ tgtLog[1].next = PyStr(" 4")
    /\ page = 4

\* The declared sizes of the first n missing files, added up.
RECURSIVE DeclaredSum(_)
DeclaredSum(n) == IF n = 0 THEN 0 ELSE DeclaredSum(n - 1) + missing_files[n].size

\* The batch is over, every record declares a positive size, and every
\* download that was accepted delivered as many bytes as were declared.
BatchEndedAsDeclared ==
    /\ pc = "done"
    /\ missing_files # <<>>
    /\ Len(dlLog) = Len(missing_files)
    /\ \A i \in 1..Len(missing_files) :
          /\ "size" \in DOMAIN missing_files[i]
          /\ missing_files[i].size > 0
          /\ Finished(dlLog[i])
          /\ dlLog[i].out = "downloaded"
             => /\ DOWNLOAD_FOLDER[missing_files[i].name].from = missing_files[i].id
                /\ DOWNLOAD_FOLDER[missing_files[i].name].len = missing_files[i].size

\* C17: at the end of a batch in which every record declares a positive
\* size and every accepted response delivers exactly the declared number
\* of bytes, the aggregate counter is the sum of the declared sizes of all
\* missing files, whether a file was there already, was rejected or was
\* downloaded.
C17_AggregateTotalIsConsistent ==
    BatchEndedAsDeclared
    => /\ overall_pbar.n = DeclaredSum(Len(missing_files))
       /\ overall_pbar.total = <<DeclaredSum(Len(missing_files))>>

\* Of two missing files the first was rejected and the second downloaded
\* in full: the counter stands at the sum of the two sizes.
C17_Witness ==
    /\ BatchEndedAsDeclared
    /\ missing_files = <<FileA, FileA2>>
    /\ dlLog[1].out = "rejected"
    /\ dlLog[2].out = "downloaded"
    /\ overall_pbar.n = FileA.size + FileA2.size

\* Of two missing files the first was downloaded in full and the second
\* then found in the folder.
C17_DownloadedThenPresent ==
    /\ BatchEndedAsDeclared
    /\ missing_files = <<FileA, FileA2>>
    /\ dlLog[1].out = "downloaded"
    /\ dlLog[2].out = "present"
    /\ overall_pbar.n = FileA.size + FileA2.size

\* C18: a live fetch that ends on a listing response other than 200, on
\* whatever page, leaves the cache file as it was: the file is touched
\* only by the write that follows the last page, all pages having been
\* answered with 200.
C18_FailedFetchKeepsTheSnapshot ==
    [][/\ (pc = "src_fetch" /\ srcLog'[Len(srcLog')].status # 200)
          => /\ ONEDRIVE_CACHE_FILE' = ONEDRIVE_CACHE_FILE
             /\ pc' = "exited"
       /\ ONEDRIVE_CACHE_FILE' # ONEDRIVE_CACHE_FILE
          => /\ pc \in {"src_open", "src_dump"}
             /\ srcLog # <<>>
             /\ \A i \in 1..Len(srcLog) : srcLog[i].status = 200
             /\ ~CursorPresent(srcLog[Len(srcLog)].next)]_vars

\* A refresh failed on its second page, the first having brought a.jpg:
\* the snapshot with b.jpg is still there.
C18_Witness ==
    /\ pc = "exited"
    /\ USE_ONEDRIVE_CACHE
    /\ refresh_onedrive
    /\ Len(srcLog) = 2
    /\ srcLog[1].value = <<FileA>>
    /\ srcLog[2].status = 500
    /\ ONEDRIVE_CACHE_FILE = CacheOnDisk(Json(PyList(<<FileB>>)), TRUE)

\* C19: a content response with a status outside {200, 302} creates no
\* file at the destination path; and a call of download_onedrive_file
\* that finds no file at the path is not skipped, it sends a content
\* request, so the record that was rejected is asked for again.
C19_RejectedLeavesNoFile ==
    [][/\ (/\ pc = "dl_response"
           /\ "status" \in DOMAIN dlLog'[idx]
           /\ dlLog'[idx].status \notin {200, 302})
          => /\ DOWNLOAD_FOLDER' = DOWNLOAD_FOLDER
             /\ DOWNLOAD_FOLDER'[CurrentItem.name] = NoFile
       /\ (/\ pc = "dl_entry"
           /\ DOWNLOAD_FOLDER[CurrentItem.name] = NoFile)
          => /\ pc' = "dl_response"
             /\ dl' = [k |-> "request", id |-> CurrentItem.id]
             /\ dlLog'[idx].out = "requested"]_vars

\* The same record twice in the list: rejected the first time, it is
\* requested again the second time.
C19_Witness ==
    /\ Len(dlLog) = 2
    /\ dlLog[1] = [id |-> FileA.id, out |-> "rejected", status |-> 404]
    /\ dlLog[2] = [id |-> FileA.id, out |-> "requested"]
    /\ DOWNLOAD_FOLDER["a.jpg"] = NoFile

====
